---- MODULE Spec2Model ----
(***************************************************************************)
(* Model of the CORS forwarding proxy (proxy-server.js).                   *)
(*                                                                         *)
(* One record per inbound request: the request as the HTTP parser hands it *)
(* to the handler (method, the value of the `url` query parameter, the     *)
(* lower-cased header object, the body the caller is going to send), the   *)
(* ServerResponse `res` the handler writes to, and the ClientRequest       *)
(* `proxyReq` the handler opens towards the target.  The request handler   *)
(* is one atomic action (it is synchronous); every callback it registers   *)
(* (response callback, 'error' listener, the two pipes) is an action of    *)
(* its own.                                                                *)
(***************************************************************************)
EXTENDS Integers, Sequences, FiniteSets, TLC

\* ---------------------------------------------------------------- bounds
NumReqs == 2        \* inbound requests handled by one proxy process
MaxChunks == 2      \* longest body (in chunks) in either direction

Reqs == 1..NumReqs

\* ------------------------------------------------------- program constants
PORT_HTTP == 80
PORT_HTTPS == 443
STATUS_OK == 200
STATUS_BAD_REQUEST == 400
STATUS_BAD_GATEWAY == 502

NoPort == -1        \* URL.port === '' (no port, or the scheme's default port)
MaxPort == 65535    \* largest port the URL parser accepts

\* Chunks a stream holds before it reports that it is full (write() returns
\* false, push() returns false): the high-water mark of the streams pipe()
\* connects, counted in chunks.
HighWaterMark == 1

ACAO == "Access-Control-Allow-Origin"
ACAM == "Access-Control-Allow-Methods"
ACAH == "Access-Control-Allow-Headers"
ACMA == "Access-Control-Max-Age"
ACEH == "Access-Control-Expose-Headers"
ALLOW_METHODS == "GET, POST, PUT, DELETE, PROPFIND, HEAD, OPTIONS"
ALLOW_HEADERS == "Content-Type, Authorization, Depth, User-Agent"
MSG_MISSING == "Missing target URL. Use ?url=..."
MSG_INVALID == "Invalid target URL"
MSG_FAILED == "Proxy request failed"

\* ------------------------------------------------------------ header maps
\* A header object is a function from its own keys to values (a JS object).
NoHeaders == [k \in {} |-> ""]

Hdr(k, v) == [x \in {k} |-> v]

\* { ...a, ...b }: keys of b overwrite equal keys of a; keys are compared as
\* JS compares property names, i.e. case-sensitively.
Overlay(a, b) ==
    [k \in (DOMAIN a) \cup (DOMAIN b) |-> IF k \in DOMAIN b THEN b[k] ELSE a[k]]

\* delete h[k]
Delete(h, k) == [x \in (DOMAIN h) \ {k} |-> h[x]]

\* Case-insensitive header name, as HTTP compares header names.
Lower(k) ==
    CASE k = ACAO -> "access-control-allow-origin"
      [] k = ACAM -> "access-control-allow-methods"
      [] k = ACAH -> "access-control-allow-headers"
      [] k = ACMA -> "access-control-max-age"
      [] k = ACEH -> "access-control-expose-headers"
      [] k = "Content-Type" -> "content-type"
      [] OTHER -> k

HasHeader(h, name) == \E k \in DOMAIN h : Lower(k) = name

\* JSON.stringify of a flat object of strings, as the token sequence of its
\* text: { key : value , key : value }, the pairs in insertion order.
RECURSIVE JSONMembers(_)
JSONMembers(pairs) ==
    IF pairs = << >> THEN << >>
    ELSE <<pairs[1][1], ":", pairs[1][2]>>
         \o (IF Len(pairs) = 1 THEN << >> ELSE <<",">>)
         \o JSONMembers(Tail(pairs))

JSONStringify(pairs) == <<"{">> \o JSONMembers(pairs) \o <<"}">>

\* The value of member `key` in a JSON text, "" when it has no such member.
JSONField(text, key) ==
    IF \E i \in 1..(Len(text) - 2) : text[i] = key /\ text[i + 1] = ":"
    THEN text[(CHOOSE i \in 1..(Len(text) - 2) :
                  text[i] = key /\ text[i + 1] = ":") + 2]
    ELSE ""

NoBody == << >>

\* ------------------------------------------------------------- target URL
\* The value of the `url` query parameter, by its components.  `given` is
\* FALSE when the query has no `url` key; the empty string is the value with
\* every component empty.
NoUrl == [given |-> FALSE, scheme |-> "", host |-> "", port |-> NoPort,
          path |-> "", search |-> ""]
Url(s, h, p, pa, q) == [given |-> TRUE, scheme |-> s, host |-> h, port |-> p,
                        path |-> pa, search |-> q]
EmptyUrl == Url("", "", NoPort, "", "")

\* Mutation: only the empty string is taken for a missing target.
Falsy_OnlyEmpty(u) == u = EmptyUrl

\* !targetUrl : undefined and '' are the falsy values a query value can take.
Falsy(u) == ~u.given \/ u = EmptyUrl

SpecialSchemes == {"http", "https", "ftp", "ws", "wss"}

DefaultPort(scheme) ==
    CASE scheme = "http" -> PORT_HTTP
      [] scheme = "https" -> PORT_HTTPS
      [] scheme = "ws" -> PORT_HTTP
      [] scheme = "wss" -> PORT_HTTPS
      [] scheme = "ftp" -> 21
      [] OTHER -> NoPort

Protocol(scheme) ==
    CASE scheme = "http" -> "http:"
      [] scheme = "https" -> "https:"
      [] scheme = "ftp" -> "ftp:"
      [] scheme = "ws" -> "ws:"
      [] scheme = "wss" -> "wss:"
      [] OTHER -> scheme

\* new URL(targetUrl) without a base: throws TypeError unless the string is
\* an absolute URL with a valid authority.
URLThrows(u) ==
    \/ u.scheme = ""                                   \* relative reference
    \/ u.port > MaxPort                                \* port out of range
    \/ (u.scheme \in SpecialSchemes /\ u.host = "")    \* empty host

\* The URL object: the port equal to the scheme's default is dropped, the
\* empty path of a special scheme becomes "/".
ParseURL(u) ==
    [protocol |-> Protocol(u.scheme),
     hostname |-> u.host,
     port     |-> IF u.port = DefaultPort(u.scheme) THEN NoPort ELSE u.port,
     pathname |-> IF u.path = "" /\ u.scheme \in SpecialSchemes THEN "/" ELSE u.path,
     search   |-> u.search]

\* error.message of the TypeError thrown by new URL.
URLErrorMessage == "Invalid URL"

\* --------------------------------------------------------- handler pieces
\* Mutation: the preflight answer without Access-Control-Max-Age.
PreflightHeaders_NoMaxAge ==
    [k \in {ACAO, ACAM, ACAH} |->
        CASE k = ACAO -> "*"
          [] k = ACAM -> ALLOW_METHODS
          [] k = ACAH -> ALLOW_HEADERS]

\* Headers of the preflight answer.
PreflightHeaders ==
    [k \in {ACAO, ACAM, ACAH, ACMA} |->
        CASE k = ACAO -> "*"
          [] k = ACAM -> ALLOW_METHODS
          [] k = ACAH -> ALLOW_HEADERS
          [] k = ACMA -> "86400"]

\* Headers of the 400 answer for a missing target.
MissingTargetHeaders == Hdr("Content-Type", "application/json")

\* Headers of the 400 answer of the catch block and of the 502 answer.
ErrorHeaders ==
    [k \in {"Content-Type", ACAO} |->
        IF k = ACAO THEN "*" ELSE "application/json"]

\* The fixed CORS block of a relayed response.
CorsBlock ==
    [k \in {ACAO, ACAM, ACAH, ACEH} |->
        CASE k = ACAO -> "*"
          [] k = ACAM -> ALLOW_METHODS
          [] k = ACAH -> ALLOW_HEADERS
          [] k = ACEH -> "*"]

\* responseHeaders after the forEach over proxyRes.headers.
ResponseHeaders(targetHeaders) == Overlay(CorsBlock, targetHeaders)

\* Mutation: the inbound headers are not copied.
OutboundHeaders_Fresh(reqHeaders, t) == NoHeaders

\* options.headers after the two deletes.
OutboundHeaders(reqHeaders, t) ==
    Delete(Delete(Overlay(reqHeaders, Hdr("host", t.hostname)), "host"),
           "connection")

\* target.protocol === 'https:' ? https : http
Transport(t) == IF t.protocol = "https:" THEN "https" ELSE "http"

\* target.port || (target.protocol === 'https:' ? 443 : 80)
OutboundPort(t) ==
    IF t.port # NoPort THEN t.port
    ELSE IF t.protocol = "https:" THEN PORT_HTTPS ELSE PORT_HTTP

\* target.pathname + target.search, kept as the two parts concatenated.
OutboundPath(t) == <<t.pathname, t.search>>

\* Mutation: PROPFIND is missing from the list of body-less methods.
ForwardsBody_NoPropfind(method) ==
    method # "GET" /\ method # "HEAD" /\ method # "DELETE"

\* Mutation: only POST bodies are forwarded.
ForwardsBody_PostOnly(method) == method = "POST"

\* The methods whose body is forwarded.
ForwardsBody(method) ==
    method # "GET" /\ method # "HEAD" /\ method # "DELETE" /\ method # "PROPFIND"

\* ------------------------------------------------------------------ state
VARIABLES
    inp,      \* inp[r]: the inbound request and what its peers are going to do
    phase,    \* phase[r]: "absent" | "new" (parsed, handler not run) | "handled"
    res,      \* res[r]: the ServerResponse towards the caller
    out,      \* out[r]: the ClientRequest proxyReq towards the target
    caller,   \* caller[r]: the inbound body stream req and the caller's socket
    target,   \* target[r]: the target's answer (if it answers) and how much
              \*            of it has reached proxyRes
    pipes,    \* pipes[r]: state of req.pipe(proxyReq) and proxyRes.pipe(res)
    conns,    \* number of ClientRequests protocol.request has created so far
    crashed,  \* TRUE once an exception escaped a callback (process exit)
    fsrv      \* the static file server's request: its url, the paths it
              \* passed to fs.stat and fs.readFile, and its response status

vars == <<inp, phase, res, out, caller, target, pipes, conns, crashed, fsrv>>

NoRes == [heads |-> 0, status |-> 0, headers |-> NoHeaders, json |-> NoBody,
          chunks |-> << >>, flushed |-> 0, ends |-> 0]

NoOut == [opens |-> 0, error |-> "", state |-> "none", transport |-> "none", hostname |-> "",
          port |-> NoPort, path |-> <<"", "">>, method |-> "",
          headers |-> NoHeaders, written |-> << >>, flushed |-> 0, ends |-> 0]

NoCaller == [arrived |-> 0, ended |-> FALSE, gone |-> FALSE]

NoTarget == [responded |-> FALSE, status |-> 0, headers |-> NoHeaders, n |-> 0,
             sent |-> 0, done |-> FALSE]

NoPipes == [req |-> "none", res |-> "none"]

\* The k-th chunk of a body; chunks of one body are pairwise different.
Chunk(k) == k
Body(n) == [k \in 1..n |-> Chunk(k)]

\* ----------------------------------------------------------------- inputs
Methods == {"OPTIONS", "GET", "HEAD", "DELETE", "PROPFIND", "POST", "PUT"}

InboundHeaders ==
    { Overlay(Overlay(a, b), c) :
        a \in {NoHeaders, Hdr("host", "localhost:8080")},
        b \in {NoHeaders, Hdr("connection", "keep-alive")},
        c \in {NoHeaders, Hdr("x-test", "abc")} }

UrlParams ==
    { NoUrl, EmptyUrl,
      Url("", "", NoPort, "not-a-url", ""),
      Url("http", "example.test", MaxPort + 1, "/", ""),
      Url("http", "example.test", NoPort, "/foo", ""),
      Url("http", "example.test", 8081, "/foo", "?a=1"),
      Url("https", "secure.test", PORT_HTTPS, "", ""),
      Url("ftp", "files.test", 21, "/x", "") }

\* What a target answers when it answers: status, headers, body length.
TargetHeads ==
    { <<201, Hdr("x-custom", "v")>>,
      <<404, NoHeaders>>,
      <<200, Hdr("access-control-allow-origin", "https://app.test")>> }

Answer(st, h, n) == [responded |-> FALSE, status |-> st, headers |-> h, n |-> n,
                     sent |-> 0, done |-> FALSE]

AllAnswers == { Answer(hd[1], hd[2], n) : hd \in TargetHeads, n \in 0..MaxChunks }

TransportErrors == {"ECONNREFUSED", "ECONNRESET"}

Request(m, u, h, n) == [method |-> m, url |-> u, headers |-> h, nbody |-> n]

AllRequests ==
    { Request(m, u, h, n) :
        m \in Methods, u \in UrlParams, h \in InboundHeaders, n \in 0..MaxChunks }

NoRequest == Request("", NoUrl, NoHeaders, 0)

\* -------------------------------------------------------------------- Init
\* No request at the static file server.
NoFileRequest ==
    [phase |-> "absent", requested |-> [abs |-> TRUE, segs |-> << >>],
     url |-> [abs |-> TRUE, segs |-> << >>],
     pathname |-> [abs |-> TRUE, segs |-> << >>], filePath |-> << >>,
     stats |-> {}, reads |-> {}, exists |-> {}, hops |-> 0, status |-> 0]

\* One inbound request, drawn from all requests.
Init ==
    /\ \E q \in AllRequests :
          inp = [r \in Reqs |-> IF r = 1 THEN q ELSE NoRequest]
    /\ phase = [r \in Reqs |-> IF r = 1 THEN "new" ELSE "absent"]
    /\ res = [r \in Reqs |-> NoRes]
    /\ out = [r \in Reqs |-> NoOut]
    /\ caller = [r \in Reqs |-> NoCaller]
    /\ \E a \in AllAnswers :
          target = [r \in Reqs |-> IF r = 1 THEN a ELSE NoTarget]
    /\ pipes = [r \in Reqs |-> NoPipes]
    /\ conns = 0
    /\ crashed = FALSE
    /\ fsrv = NoFileRequest

\* NumReqs inbound requests in flight at once: the first a GET without body
\* or a POST with a one-chunk body, to a target that answers with one chunk;
\* the others GETs to a target that answers without body.
ConcRequests ==
    { Request("GET", Url("http", "example.test", NoPort, "/foo", ""),
              Hdr("host", "localhost:8080"), 0),
      Request("POST", Url("http", "example.test", NoPort, "/foo", ""),
              Hdr("host", "localhost:8080"), 1) }

ConcInit ==
    /\ inp \in [Reqs -> ConcRequests]
    /\ \A r \in Reqs \ {1} : inp[r].method = "GET"
    /\ phase = [r \in Reqs |-> "new"]
    /\ res = [r \in Reqs |-> NoRes]
    /\ out = [r \in Reqs |-> NoOut]
    /\ caller = [r \in Reqs |-> NoCaller]
    /\ target = [r \in Reqs |-> IF r = 1 THEN Answer(201, Hdr("x-custom", "v"), 1)
                                 ELSE Answer(404, NoHeaders, 0)]
    /\ pipes = [r \in Reqs |-> NoPipes]
    /\ conns = 0
    /\ crashed = FALSE
    /\ fsrv = NoFileRequest

\* ------------------------------------------------------- ServerResponse
\* res.writeHead(status, headers); res.end(body) on a response without head.
Respond(status, headers, json) ==
    [heads |-> 1, status |-> status, headers |-> headers, json |-> json,
     chunks |-> << >>, flushed |-> 0, ends |-> 1]

\* Mutation: the 502 answer without the transport detail.
BadGateway_NoDetail(msg) ==
    Respond(STATUS_BAD_GATEWAY, ErrorHeaders,
            JSONStringify(<< <<"error", MSG_FAILED>> >>))

\* The 502 answer of the 'error' listener.
BadGateway(msg) ==
    Respond(STATUS_BAD_GATEWAY, ErrorHeaders,
            JSONStringify(<< <<"error", MSG_FAILED>>, <<"message", msg>> >>))

\* ----------------------------------------------------- the request handler
\* OPTIONS branch.
Preflight(r) ==
    /\ inp[r].method = "OPTIONS"
    /\ res' = [res EXCEPT ![r] = Respond(STATUS_OK, PreflightHeaders, NoBody)]
    /\ UNCHANGED <<out, pipes, conns>>

\* Missing target branch.
MissingTarget(r) ==
    /\ inp[r].method # "OPTIONS"
    /\ Falsy(inp[r].url)
    /\ res' = [res EXCEPT ![r] =
                 Respond(STATUS_BAD_REQUEST, MissingTargetHeaders,
                         JSONStringify(<< <<"error", MSG_MISSING>> >>))]
    /\ UNCHANGED <<out, pipes, conns>>

\* Mutation: the catch block answers without the parse detail.
InvalidTarget_NoMessage(r) ==
    /\ inp[r].method # "OPTIONS"
    /\ ~Falsy(inp[r].url)
    /\ URLThrows(inp[r].url)
    /\ res' = [res EXCEPT ![r] =
                 Respond(STATUS_BAD_REQUEST, ErrorHeaders,
                         JSONStringify(<< <<"error", MSG_INVALID>> >>))]
    /\ UNCHANGED <<out, pipes, conns>>

\* new URL(targetUrl) throws; the catch block answers.
InvalidTarget(r) ==
    /\ inp[r].method # "OPTIONS"
    /\ ~Falsy(inp[r].url)
    /\ URLThrows(inp[r].url)
    /\ res' = [res EXCEPT ![r] =
                 Respond(STATUS_BAD_REQUEST, ErrorHeaders,
                         JSONStringify(<< <<"error", MSG_INVALID>>,
                                          <<"message", URLErrorMessage>> >>))]
    /\ UNCHANGED <<out, pipes, conns>>

\* protocol.request(options, callback), the 'error' listener, and the body
\* branch: req.pipe(proxyReq) or proxyReq.end().
Forward(r) ==
    /\ inp[r].method # "OPTIONS"
    /\ ~Falsy(inp[r].url)
    /\ ~URLThrows(inp[r].url)
    /\ LET t == ParseURL(inp[r].url) IN
       out' = [out EXCEPT ![r] =
                 [opens     |-> out[r].opens + 1,
                  error     |-> "",
                  state     |-> "open",
                  transport |-> Transport(t),
                  hostname  |-> t.hostname,
                  port      |-> OutboundPort(t),
                  path      |-> OutboundPath(t),
                  method    |-> inp[r].method,
                  headers   |-> OutboundHeaders(inp[r].headers, t),
                  written   |-> << >>,
                  flushed   |-> 0,
                  ends      |-> IF ForwardsBody(inp[r].method) THEN 0 ELSE 1]]
    /\ pipes' = [pipes EXCEPT ![r].req =
                   IF ForwardsBody(inp[r].method) THEN "piping" ELSE "none"]
    /\ conns' = conns + 1
    /\ UNCHANGED res

\* The 'request' listener of http.createServer, start to return.
Handle(r) ==
    /\ ~crashed
    /\ phase[r] = "new"
    /\ phase' = [phase EXCEPT ![r] = "handled"]
    /\ \/ Preflight(r)
       \/ MissingTarget(r)
       \/ InvalidTarget(r)
       \/ Forward(r)
    /\ UNCHANGED <<inp, caller, target, crashed, fsrv>>

\* ------------------------------------------------- the caller's side
Forwarded(r) == out[r].opens > 0

\* Mutation: the inbound socket is read whatever req has buffered.
CallerSend_Unbounded(r) ==
    /\ ~crashed
    /\ phase[r] = "handled" /\ Forwarded(r)
    /\ ~caller[r].gone /\ ~caller[r].ended
    /\ caller[r].arrived < inp[r].nbody
    /\ caller' = [caller EXCEPT ![r].arrived = @ + 1]
    /\ UNCHANGED <<inp, phase, res, out, target, pipes, crashed, conns, fsrv>>

\* A chunk of the inbound body is read from the caller's socket into the
\* readable buffer of req; the socket is not read while that buffer is full.
CallerSend(r) ==
    /\ ~crashed
    /\ phase[r] = "handled" /\ Forwarded(r)
    /\ ~caller[r].gone /\ ~caller[r].ended
    /\ caller[r].arrived < inp[r].nbody
    /\ caller[r].arrived - Len(out[r].written) < HighWaterMark
    /\ caller' = [caller EXCEPT ![r].arrived = @ + 1]
    /\ UNCHANGED <<inp, phase, res, out, target, pipes, crashed, conns, fsrv>>

\* The inbound message is complete.
CallerFinish(r) ==
    /\ ~crashed
    /\ phase[r] = "handled" /\ Forwarded(r)
    /\ ~caller[r].gone /\ ~caller[r].ended
    /\ caller[r].arrived = inp[r].nbody
    /\ caller' = [caller EXCEPT ![r].ended = TRUE]
    /\ UNCHANGED <<inp, phase, res, out, target, pipes, crashed, conns, fsrv>>

\* The caller's socket closes before the exchange is over: req and res are
\* destroyed.  Neither pipe ends or destroys its destination or source:
\* req.pipe(proxyReq) stops without proxyReq.end(), proxyRes.pipe(res)
\* unpipes on the 'close' of res and leaves proxyRes paused.
CallerDisconnect(r) ==
    /\ ~crashed
    /\ phase[r] = "handled" /\ Forwarded(r)
    /\ ~caller[r].gone
    /\ res[r].ends = 0
    /\ caller' = [caller EXCEPT ![r].gone = TRUE]
    /\ pipes' = [pipes EXCEPT
                   ![r].req = IF @ = "piping" THEN "unpiped" ELSE @,
                   ![r].res = IF @ = "piping" THEN "unpiped" ELSE @]
    /\ UNCHANGED <<inp, phase, res, out, target, crashed, conns, fsrv>>

\* Mutation: the chunks are written to proxyReq whether it is full or not
\* (req.on('data', c => proxyReq.write(c)) in place of pipe).
PipeReqData_NoPause(r) ==
    /\ ~crashed
    /\ pipes[r].req = "piping"
    /\ out[r].state = "open"
    /\ Len(out[r].written) < caller[r].arrived
    /\ out' = [out EXCEPT ![r].written =
                 Append(@, Body(inp[r].nbody)[Len(@) + 1])]
    /\ UNCHANGED <<inp, phase, res, caller, target, pipes, crashed, conns, fsrv>>

\* req.pipe(proxyReq), 'data': the next buffered chunk is written to
\* proxyReq.  The pipe pauses req while proxyReq is full and resumes it on
\* 'drain'.
PipeReqData(r) ==
    /\ ~crashed
    /\ pipes[r].req = "piping"
    /\ out[r].state = "open"
    /\ Len(out[r].written) < caller[r].arrived
    /\ Len(out[r].written) - out[r].flushed < HighWaterMark
    /\ out' = [out EXCEPT ![r].written =
                 Append(@, Body(inp[r].nbody)[Len(@) + 1])]
    /\ UNCHANGED <<inp, phase, res, caller, target, pipes, crashed, conns, fsrv>>

\* req.pipe(proxyReq), 'end': proxyReq.end().
PipeReqEnd(r) ==
    /\ ~crashed
    /\ pipes[r].req = "piping"
    /\ out[r].state = "open"
    /\ caller[r].ended
    /\ Len(out[r].written) = caller[r].arrived
    /\ out' = [out EXCEPT ![r].ends = @ + 1]
    /\ pipes' = [pipes EXCEPT ![r].req = "ended"]
    /\ UNCHANGED <<inp, phase, res, caller, target, crashed, conns, fsrv>>

\* The target's socket takes the oldest chunk buffered in proxyReq.
TargetAccept(r) ==
    /\ ~crashed
    /\ out[r].state = "open"
    /\ out[r].flushed < Len(out[r].written)
    /\ out' = [out EXCEPT ![r].flushed = @ + 1]
    /\ UNCHANGED <<inp, phase, res, caller, target, pipes, crashed, conns, fsrv>>

\* The caller's socket takes the oldest chunk buffered in res.
CallerAccept(r) ==
    /\ ~crashed
    /\ ~caller[r].gone
    /\ res[r].flushed < Len(res[r].chunks)
    /\ res' = [res EXCEPT ![r].flushed = @ + 1]
    /\ UNCHANGED <<inp, phase, out, caller, target, pipes, crashed, conns, fsrv>>

\* ------------------------------------------------- the target's side
\* The response head arrives: the callback of protocol.request runs.
\* res.writeHead throws when the head of res was written before.
TargetRespond(r) ==
    /\ ~crashed
    /\ out[r].state = "open"
    /\ ~target[r].responded
    /\ target' = [target EXCEPT ![r].responded = TRUE]
    /\ IF res[r].heads > 0
       THEN /\ crashed' = TRUE
            /\ UNCHANGED <<res, pipes>>
       ELSE /\ res' = [res EXCEPT ![r].heads = 1,
                                  ![r].status = target[r].status,
                                  ![r].headers = ResponseHeaders(target[r].headers)]
            /\ pipes' = [pipes EXCEPT ![r].res =
                           IF caller[r].gone THEN "unpiped" ELSE "piping"]
            /\ UNCHANGED crashed
    /\ UNCHANGED <<inp, phase, out, caller, conns, fsrv>>

\* A chunk of the response body is read from the target's socket into the
\* readable buffer of proxyRes; the socket is not read while that buffer is
\* full.
TargetSend(r) ==
    /\ ~crashed
    /\ out[r].state = "open"
    /\ target[r].responded /\ ~target[r].done
    /\ target[r].sent < target[r].n
    /\ target[r].sent - Len(res[r].chunks) < HighWaterMark
    /\ target' = [target EXCEPT ![r].sent = @ + 1]
    /\ UNCHANGED <<inp, phase, res, out, caller, pipes, crashed, conns, fsrv>>

\* The response message is complete.
TargetFinish(r) ==
    /\ ~crashed
    /\ out[r].state = "open"
    /\ target[r].responded /\ ~target[r].done
    /\ target[r].sent = target[r].n
    /\ target' = [target EXCEPT ![r].done = TRUE]
    /\ UNCHANGED <<inp, phase, res, out, caller, pipes, crashed, conns, fsrv>>

\* Mutation: the pipe writes the first chunk again.
PipeResData_Repeat(r) ==
    /\ ~crashed
    /\ pipes[r].res = "piping"
    /\ Len(res[r].chunks) < target[r].sent
    /\ res' = [res EXCEPT ![r].chunks = Append(@, Body(target[r].n)[1])]
    /\ UNCHANGED <<inp, phase, out, caller, target, pipes, crashed, conns, fsrv>>

\* proxyRes.pipe(res), 'data': the next buffered chunk is written to res.
\* The pipe pauses proxyRes while res is full and resumes it on 'drain'.
PipeResData(r) ==
    /\ ~crashed
    /\ pipes[r].res = "piping"
    /\ Len(res[r].chunks) < target[r].sent
    /\ Len(res[r].chunks) - res[r].flushed < HighWaterMark
    /\ res' = [res EXCEPT ![r].chunks =
                 Append(@, Body(target[r].n)[Len(@) + 1])]
    /\ UNCHANGED <<inp, phase, out, caller, target, pipes, crashed, conns, fsrv>>

\* proxyRes.pipe(res), 'end': res.end().  The response is consumed, the
\* outbound socket is released.
PipeResEnd(r) ==
    /\ ~crashed
    /\ pipes[r].res = "piping"
    /\ target[r].done
    /\ Len(res[r].chunks) = target[r].sent
    /\ res' = [res EXCEPT ![r].ends = @ + 1]
    /\ pipes' = [pipes EXCEPT ![r].res = "ended",
                              ![r].req = IF @ = "piping" THEN "unpiped" ELSE @]
    /\ out' = [out EXCEPT ![r].state = "closed"]
    /\ UNCHANGED <<inp, phase, caller, target, crashed, conns, fsrv>>

\* Mutation: the 'error' listener issues the outbound request again.
OutboundError_Retry(r) ==
    /\ ~crashed
    /\ out[r].state = "open"
    /\ out[r].opens < 2
    /\ \E msg \in TransportErrors :
          out' = [out EXCEPT ![r].opens = @ + 1, ![r].error = msg]
    /\ conns' = conns + 1
    /\ UNCHANGED <<inp, phase, res, caller, target, pipes, crashed, fsrv>>

\* proxyReq emits 'error' (refused, DNS, TLS, reset): the listener writes
\* the 502 answer.  res.writeHead throws when the head of res was written
\* before, and nothing catches it.
OutboundError(r) ==
    /\ ~crashed
    /\ out[r].state = "open"
    /\ \E msg \in TransportErrors :
          out' = [out EXCEPT ![r].state = "failed", ![r].error = msg]
    /\ IF res[r].heads > 0
       THEN /\ crashed' = TRUE
            /\ UNCHANGED <<res, pipes>>
       ELSE /\ res' = [res EXCEPT ![r] = BadGateway(out'[r].error)]
            /\ pipes' = [pipes EXCEPT
                           ![r].req = IF @ = "piping" THEN "unpiped" ELSE @]
            /\ UNCHANGED crashed
    /\ UNCHANGED <<inp, phase, caller, target, conns, fsrv>>

\* The target closes its connection in the middle of the response body:
\* proxyRes is aborted and closes without 'end', proxyReq emits no 'error'.
TargetAbort(r) ==
    /\ ~crashed
    /\ out[r].state = "open"
    /\ target[r].responded /\ ~target[r].done
    /\ out' = [out EXCEPT ![r].state = "closed"]
    /\ pipes' = [pipes EXCEPT
                   ![r].res = IF @ = "piping" THEN "aborted" ELSE @,
                   ![r].req = IF @ = "piping" THEN "unpiped" ELSE @]
    /\ UNCHANGED <<inp, phase, res, caller, target, crashed, conns, fsrv>>

\* ------------------------------------------------------------ specification
Next ==
    \E r \in Reqs :
        \/ Handle(r)
        \/ CallerSend(r)
        \/ CallerFinish(r)
        \/ CallerDisconnect(r)
        \/ PipeReqData(r)
        \/ PipeReqEnd(r)
        \/ TargetRespond(r)
        \/ TargetSend(r)
        \/ TargetFinish(r)
        \/ PipeResData(r)
        \/ PipeResEnd(r)
        \/ OutboundError(r)
        \/ TargetAbort(r)
        \/ TargetAccept(r)
        \/ CallerAccept(r)

Spec == Init /\ [][Next]_vars

ConcSpec == ConcInit /\ [][Next]_vars

\* The steps the proxy takes by itself: the event loop runs the handler of a
\* parsed request and the pipes move the chunks that have arrived.  The
\* caller and the target are not obliged to do anything.
ProxyStep(r) ==
    Handle(r) \/ PipeReqData(r) \/ PipeReqEnd(r) \/ PipeResData(r) \/ PipeResEnd(r)

FairSpec == ConcSpec /\ \A r \in Reqs : WF_vars(ProxyStep(r))

\* ---------------------------------------------------------------- helpers
IsPrefix(s, t) == Len(s) <= Len(t) /\ \A i \in 1..Len(s) : s[i] = t[i]

Handled(r) == phase[r] = "handled"

\* The response of r was written and ended exactly once, with this status.
AnsweredOnce(r, status) ==
    res[r].heads = 1 /\ res[r].ends = 1 /\ res[r].status = status

NoOutbound(r) == out[r].opens = 0 /\ out[r].state = "none"

AllowsAnyOrigin(h) == ACAO \in DOMAIN h /\ h[ACAO] = "*"

\* ------------------------------------------------------------------ claims
\* C1: every OPTIONS request, whatever its query and headers, is answered
\* 200 with an empty body and the four CORS headers (Allow-Origin *,
\* Allow-Methods, Allow-Headers, Max-Age 86400), and no outbound connection
\* is ever opened for it.
C1_Preflight ==
    \A r \in Reqs :
        (Handled(r) /\ inp[r].method = "OPTIONS") =>
            /\ AnsweredOnce(r, 200)
            /\ res[r].json = NoBody /\ res[r].chunks = << >>
            /\ {ACAO, ACAM, ACAH, ACMA} \subseteq DOMAIN res[r].headers
            /\ res[r].headers[ACAO] = "*"
            /\ res[r].headers[ACMA] = "86400"
            /\ NoOutbound(r)

C1_Witness ==
    \E r \in Reqs :
        /\ Handled(r) /\ inp[r].method = "OPTIONS"
        /\ inp[r].url.scheme = "http" /\ "host" \in DOMAIN inp[r].headers
        /\ res[r].ends = 1

\* C2: every non-OPTIONS request without a `url` query parameter is answered
\* 400 with exactly the body {"error":"Missing target URL. Use ?url=..."},
\* and no outbound connection is opened.
C2_MissingTarget ==
    \A r \in Reqs :
        (Handled(r) /\ inp[r].method # "OPTIONS" /\ ~inp[r].url.given) =>
            /\ AnsweredOnce(r, 400)
            /\ res[r].json =
                 <<"{", "error", ":", "Missing target URL. Use ?url=...", "}">>
            /\ res[r].chunks = << >>
            /\ NoOutbound(r)

C2_Witness ==
    \E r \in Reqs :
        /\ Handled(r) /\ inp[r].method = "POST" /\ ~inp[r].url.given
        /\ res[r].status = 400

\* The 400 answer of an invalid target: error "Invalid target URL", the parse
\* detail as message, nothing opened.
InvalidTargetAnswer(r) ==
    /\ AnsweredOnce(r, 400)
    /\ JSONField(res[r].json, "error") = "Invalid target URL"
    /\ JSONField(res[r].json, "message") = URLErrorMessage
    /\ NoOutbound(r)

\* C3 (as stated): every non-OPTIONS request whose `url` parameter is present
\* but not a parsable absolute URL is answered 400 with error "Invalid target
\* URL" and the parse detail as message, and no outbound connection is opened.
C3_Original ==
    \A r \in Reqs :
        (/\ Handled(r) /\ inp[r].method # "OPTIONS"
         /\ inp[r].url.given /\ URLThrows(inp[r].url)) => InvalidTargetAnswer(r)

\* C3 (amended): every non-OPTIONS request whose `url` parameter is present,
\* not the empty string, and not a parsable absolute URL is answered 400 with
\* error "Invalid target URL" and the parse detail as message, and no outbound
\* connection is opened.
C3_InvalidTarget ==
    \A r \in Reqs :
        (/\ Handled(r) /\ inp[r].method # "OPTIONS"
         /\ inp[r].url.given /\ inp[r].url # EmptyUrl
         /\ URLThrows(inp[r].url)) => InvalidTargetAnswer(r)

C3_Witness ==
    \E r \in Reqs :
        /\ Handled(r) /\ inp[r].method = "GET"
        /\ inp[r].url.given /\ inp[r].url.path = "not-a-url"
        /\ res[r].status = 400

\* C4: every error answer the proxy produces (MissingTarget 400,
\* InvalidTarget 400, UpstreamUnavailable 502) carries
\* Access-Control-Allow-Origin: *.
C4_ErrorsAllowAnyOrigin ==
    \A r \in Reqs :
        (res[r].heads = 1 /\ res[r].json # NoBody /\ res[r].status \in {400, 502})
            => AllowsAnyOrigin(res[r].headers)

\* C5: when the outbound connection of a forwarded request fails before any
\* response of the target was received, exactly one response is written: 502,
\* error "Proxy request failed", message the transport detail.
C5_BadGateway ==
    \A r \in Reqs :
        (out[r].state = "failed" /\ ~target[r].responded) =>
            /\ AnsweredOnce(r, 502)
            /\ JSONField(res[r].json, "error") = "Proxy request failed"
            /\ out[r].error \in TransportErrors
            /\ JSONField(res[r].json, "message") = out[r].error
            /\ res[r].chunks = << >>

C5_Witness ==
    \E r \in Reqs :
        /\ out[r].state = "failed" /\ ~target[r].responded
        /\ out[r].error = "ECONNREFUSED"
        /\ res[r].status = 502

\* C6: once the target of a forwarded request has responded, the caller's
\* response carries the target's status, every header of the target with its
\* value, Access-Control-Allow-Origin: * unless the target set that header,
\* and the target's body chunks in order, unaltered, none twice; when the
\* response is ended no chunk is missing.
C6_Relay ==
    \A r \in Reqs :
        target[r].responded =>
            /\ res[r].heads = 1
            /\ res[r].status = target[r].status
            /\ \A k \in DOMAIN target[r].headers :
                  k \in DOMAIN res[r].headers
                  /\ res[r].headers[k] = target[r].headers[k]
            /\ (~HasHeader(target[r].headers, "access-control-allow-origin")
                  => AllowsAnyOrigin(res[r].headers))
            /\ IsPrefix(res[r].chunks, Body(target[r].n))
            /\ res[r].ends <= 1
            /\ (res[r].ends = 1 => res[r].chunks = Body(target[r].n))
            /\ res[r].json = NoBody

C6_Witness ==
    \E r \in Reqs :
        /\ target[r].responded /\ target[r].status = 201
        /\ "x-custom" \in DOMAIN target[r].headers
        /\ target[r].n = 2 /\ Len(res[r].chunks) = 2
        /\ res[r].ends = 1

\* C7: the header mapping of every outbound request has a Host entry whose
\* value is the target's host, and no Connection entry.
C7_HostReplaced ==
    \A r \in Reqs :
        out[r].opens > 0 =>
            /\ "host" \in DOMAIN out[r].headers
            /\ out[r].headers["host"] = out[r].hostname
            /\ "connection" \notin DOMAIN out[r].headers

\* C8: for a forwarded request whose method is not GET, HEAD, DELETE or
\* PROPFIND, the chunks written to the outbound request are the chunks the
\* caller sent, in order, unaltered, none twice, and the outbound request is
\* ended at most once and only after the last inbound chunk was forwarded.
C8_BodyForwarded ==
    \A r \in Reqs :
        (out[r].opens > 0
         /\ inp[r].method \notin {"GET", "HEAD", "DELETE", "PROPFIND"}) =>
            /\ IsPrefix(out[r].written, Body(inp[r].nbody))
            /\ Len(out[r].written) <= caller[r].arrived
            /\ out[r].ends <= 1
            /\ (out[r].ends = 1 =>
                  caller[r].ended /\ out[r].written = Body(inp[r].nbody))

C8_Witness ==
    \E r \in Reqs :
        /\ inp[r].method = "PUT" /\ inp[r].nbody = 2
        /\ out[r].written = <<Chunk(1), Chunk(2)>>
        /\ out[r].ends = 1

C10_CancelPropagates ==
    \A r \in Reqs :
        (caller[r].gone /\ out[r].state = "open") ~> (out[r].state # "open")


\* C11: requests are handled independently: whatever happened in the handling
\* of the other requests, a request whose own outbound connection is open and
\* whose caller is connected is never kept from relaying a chunk its target
\* has delivered.
C11_Independent ==
    \A r \in Reqs :
        (/\ out[r].state = "open" /\ ~caller[r].gone
         /\ pipes[r].res = "piping"
         /\ Len(res[r].chunks) < target[r].sent
         /\ Len(res[r].chunks) - res[r].flushed < HighWaterMark)
            => ENABLED PipeResData(r)


\* C12: in the headers written to the caller on a relay, a header of the
\* target wins over the fixed CORS block, header names compared without
\* regard to case: every header name the target sent occurs exactly once, with
\* the target's value.
C12_TargetHeaderWins ==
    \A r \in Reqs :
        target[r].responded =>
            \A k \in DOMAIN target[r].headers :
                /\ Cardinality({j \in DOMAIN res[r].headers : Lower(j) = Lower(k)}) = 1
                /\ \A j \in DOMAIN res[r].headers :
                      Lower(j) = Lower(k) => res[r].headers[j] = target[r].headers[k]

\* C13: every non-OPTIONS request whose `url` parameter is a parsable absolute
\* URL with a scheme other than http and https is answered 400 "Invalid target
\* URL", and no outbound connection is opened.
C13_SchemeRejected ==
    \A r \in Reqs :
        (/\ Handled(r) /\ inp[r].method # "OPTIONS"
         /\ inp[r].url.given /\ ~URLThrows(inp[r].url)
         /\ inp[r].url.scheme \notin {"http", "https"}) =>
            /\ AnsweredOnce(r, 400)
            /\ JSONField(res[r].json, "error") = "Invalid target URL"
            /\ out[r].opens = 0

C15_TruncatedResponseClosed ==
    \A r \in Reqs :
        (res[r].heads = 1 /\ target[r].responded /\ ~target[r].done
         /\ out[r].state \in {"closed", "failed"})
            ~> (res[r].ends >= 1 \/ caller[r].gone)


\* C16: backpressure in both directions: the chunks read from the source
\* socket and not yet written to the destination stream, and the chunks
\* written to the destination stream and not yet taken by its socket, never
\* exceed the high-water mark, however long the body is; so a chunk is read
\* from the source only while the destination has room.
C16_Backpressure ==
    \A r \in Reqs :
        /\ caller[r].arrived - Len(out[r].written) <= HighWaterMark
        /\ Len(out[r].written) - out[r].flushed <= HighWaterMark
        /\ target[r].sent - Len(res[r].chunks) <= HighWaterMark
        /\ Len(res[r].chunks) - res[r].flushed <= HighWaterMark

C16_Witness ==
    \E r \in Reqs :
        /\ inp[r].nbody > HighWaterMark /\ target[r].n > HighWaterMark
        /\ pipes[r].req = "piping" /\ pipes[r].res = "piping"
        /\ caller[r].arrived - Len(out[r].written) = HighWaterMark
        /\ Len(out[r].written) - out[r].flushed = HighWaterMark
        /\ target[r].sent - Len(res[r].chunks) = HighWaterMark
        /\ Len(res[r].chunks) - res[r].flushed = HighWaterMark

\* C17: building the outbound request leaves every inbound header other than
\* Host and Connection unchanged, and adds no key that the inbound request
\* did not have, apart from Host.
C17_OtherHeadersKept ==
    \A r \in Reqs :
        out[r].opens > 0 =>
            /\ \A k \in (DOMAIN inp[r].headers) \ {"host", "connection"} :
                  k \in DOMAIN out[r].headers
                  /\ out[r].headers[k] = inp[r].headers[k]
            /\ (DOMAIN out[r].headers) \subseteq (DOMAIN inp[r].headers) \cup {"host"}

C17_Witness ==
    \E r \in Reqs :
        /\ out[r].opens > 0
        /\ {"host", "connection", "x-test"} \subseteq DOMAIN inp[r].headers
        /\ "x-test" \in DOMAIN out[r].headers

\* C18: the port of the outbound connection is the port the target URL gives,
\* and without one 443 for https and 80 for http; the transport is the
\* encrypted one for https and the plain one for http, as the scheme says.
C18_PortAndTransport ==
    \A r \in Reqs :
        out[r].opens > 0 =>
            /\ out[r].port =
                 (IF inp[r].url.port # NoPort THEN inp[r].url.port
                  ELSE IF inp[r].url.scheme = "https" THEN 443 ELSE 80)
            /\ out[r].transport = inp[r].url.scheme

\* C19: the head of a response is written at most once and the response is
\* ended at most once, and the 'error' listener of the outbound request never
\* runs res.writeHead on a response whose head was already written.
C19_HeadWrittenOnce ==
    [][\A r \in Reqs :
          /\ res'[r].heads <= 1 /\ res'[r].ends <= 1
          /\ (out[r].state = "open" /\ out'[r].state = "failed")
                => res[r].heads = 0]_vars


\* ------------------------------------------------ static file server
\* A path is its segments and whether it starts at "/"; a segment is a name
\* between two separators.  The request url holds raw (percent-encoded)
\* segments; the file system is addressed by absolute segment sequences.
MaxSegs == 3

STATUS_FORBIDDEN == 403
STATUS_NOT_FOUND == 404
STATUS_SERVER_ERROR == 500

\* __dirname, the directory the server serves.
Root == <<"srv", "app">>

DEFAULT_FILES == <<"index.html", "default.html">>

\* The file system: files and directories inside the root, a sibling of the
\* root whose name starts with the root's name, and a file elsewhere.
FS ==
    (<<"srv">> :> "dir") @@
    (<<"srv", "app">> :> "dir") @@
    (<<"srv", "app", "index.html">> :> "file") @@
    (<<"srv", "app", "d">> :> "dir") @@
    (<<"srv", "app", "d", "default.html">> :> "file") @@
    (<<"srv", "app", "e">> :> "dir") @@
    (<<"srv", "app", "f">> :> "dir") @@
    (<<"srv", "app", "f", "index.html">> :> "dir") @@
    (<<"srv", "app", "f", "index.html", "index.html">> :> "file") @@
    (<<"srv", "app", "%2e%2e">> :> "dir") @@
    (<<"srv", "app", "%2e%2e", "index.html">> :> "file") @@
    (<<"srv", "app-secret">> :> "dir") @@
    (<<"srv", "app-secret", "index.html">> :> "file") @@
    (<<"etc">> :> "dir") @@
    (<<"etc", "passwd">> :> "file")

\* What fs.stat reports for an absolute path.
StatResult(p) ==
    IF p = << >> THEN "dir"
    ELSE IF p \in DOMAIN FS THEN FS[p]
    ELSE IF \E n \in 1..(Len(p) - 1) :
               SubSeq(p, 1, n) \in DOMAIN FS /\ FS[SubSeq(p, 1, n)] = "file"
         THEN "ENOTDIR"
    ELSE "ENOENT"

\* fs.existsSync.
ExistsSync(p) == StatResult(p) \in {"file", "dir"}

\* decodeURIComponent on one raw segment: an encoded dot becomes a dot, an
\* encoded percent sign a percent sign, an encoded separator a separator
\* (which splits the segment in two).
DecodeSegment(s) ==
    CASE s = "%2e%2e" -> <<"..">>
      [] s = "%252e%252e" -> <<"%2e%2e">>
      [] s = "..%2fapp-secret" -> <<"..", "app-secret">>
      [] s = "..%2f..%2fetc" -> <<"..", "..", "etc">>
      [] OTHER -> <<s>>

RECURSIVE DecodeSegments(_)
DecodeSegments(segs) ==
    IF segs = << >> THEN << >>
    ELSE DecodeSegment(Head(segs)) \o DecodeSegments(Tail(segs))

\* decodeURIComponent(parsedUrl.pathname).
DecodeURIComponent(u) == [abs |-> u.abs, segs |-> DecodeSegments(u.segs)]

\* Resolution of "." and ".." segments, left to right, onto acc: ".." drops
\* the segment before it; at the top of an absolute path it is dropped, at
\* the top of a relative path it is kept.
RECURSIVE Resolve(_, _, _)
Resolve(segs, acc, abs) ==
    IF segs = << >> THEN acc
    ELSE LET s == Head(segs)
             acc2 == IF s = "." THEN acc
                     ELSE IF s = ".."
                          THEN IF acc # << >> /\ acc[Len(acc)] # ".."
                               THEN SubSeq(acc, 1, Len(acc) - 1)
                               ELSE IF abs THEN acc ELSE Append(acc, s)
                     ELSE Append(acc, s)
         IN Resolve(Tail(segs), acc2, abs)

\* Mutation: path.normalize leaves ".." segments in place.
NormalizePath_KeepsDotDot(p) == p

\* path.normalize.
NormalizePath(p) == [abs |-> p.abs, segs |-> Resolve(p.segs, << >>, p.abs)]

\* .replace(/^(\.\.[\/\\])+/, ''): at the start of the string, every ".."
\* that is followed by a separator is removed; an absolute path starts with
\* a separator and is left as it is.
RECURSIVE StripLeadingDotDot(_)
StripLeadingDotDot(p) ==
    IF ~p.abs /\ Len(p.segs) >= 2 /\ p.segs[1] = ".."
    THEN StripLeadingDotDot([abs |-> FALSE, segs |-> Tail(p.segs)])
    ELSE p

\* path.join(dir, p) for an absolute dir: the segments of both, resolved.
JoinPath(dir, p) == Resolve(dir \o p.segs, << >>, TRUE)

\* Whether the name a is a string prefix of the name b: the names of the
\* file system above.
NamePrefix(a, b) == a = b \/ (a = "app" /\ b = "app-secret")

\* filePath.startsWith(__dirname), on the strings: the segments of dir but
\* the last are segments of p, and the last one starts the next one of p.
StartsWith(p, dir) ==
    /\ Len(p) >= Len(dir)
    /\ \A i \in 1..(Len(dir) - 1) : p[i] = dir[i]
    /\ NamePrefix(dir[Len(dir)], p[Len(dir)])

\* pathname === '/' is served as '/index.html'.
RootAsIndex(p) ==
    IF p.abs /\ p.segs = << >> THEN [abs |-> TRUE, segs |-> <<"index.html">>]
    ELSE p

SafePath(pathname) == StripLeadingDotDot(NormalizePath(pathname))

FilePath(pathname) == JoinPath(Root, SafePath(pathname))

\* The default files of the directory dir that exist, as indexes of
\* DEFAULT_FILES.
DefaultsIn(dir) ==
    { i \in 1..Len(DEFAULT_FILES) : ExistsSync(Append(dir, DEFAULT_FILES[i])) }

\* The first default file that exists in dir.
FirstDefault(dir) ==
    DEFAULT_FILES[CHOOSE i \in DefaultsIn(dir) : \A j \in DefaultsIn(dir) : i <= j]

\* The raw segments a request may carry.
RawSegments ==
    { ".", "..", "%2e%2e", "%252e%252e", "..%2fapp-secret", "..%2f..%2fetc",
      "d", "e", "f", "index.html", "passwd" }

RECURSIVE SeqsUpTo(_, _)
SeqsUpTo(S, n) ==
    IF n = 0 THEN { << >> }
    ELSE LET shorter == SeqsUpTo(S, n - 1)
         IN shorter \cup { Append(q, s) : q \in shorter, s \in S }

\* The request urls: origin-form paths of up to MaxSegs raw segments, and the
\* asterisk-form "*", whose pathname does not start with a separator.
FileUrls ==
    { [abs |-> TRUE, segs |-> q] : q \in SeqsUpTo(RawSegments, MaxSegs) }
      \cup { [abs |-> FALSE, segs |-> <<"*">>] }

\* One request at the file server; no request at the proxy.
FileInit ==
    /\ inp = [r \in Reqs |-> NoRequest]
    /\ phase = [r \in Reqs |-> "absent"]
    /\ res = [r \in Reqs |-> NoRes]
    /\ out = [r \in Reqs |-> NoOut]
    /\ caller = [r \in Reqs |-> NoCaller]
    /\ target = [r \in Reqs |-> NoTarget]
    /\ pipes = [r \in Reqs |-> NoPipes]
    /\ conns = 0
    /\ crashed = FALSE
    /\ \E u \in FileUrls : fsrv = [NoFileRequest EXCEPT !.phase = "new", !.requested = u, !.url = u]

\* handleRequest(req, res) up to the call of fs.stat, for the request url u.
Dispatch(f, u) ==
    LET pathname == RootAsIndex(DecodeURIComponent(u))
        filePath == FilePath(pathname)
    IN IF ~StartsWith(filePath, Root)
       THEN [f EXCEPT !.phase = "done", !.url = u, !.pathname = pathname,
                      !.filePath = filePath, !.status = STATUS_FORBIDDEN]
       ELSE [f EXCEPT !.phase = "stat", !.url = u, !.pathname = pathname,
                      !.filePath = filePath,
                      !.stats = f.stats \cup {filePath}]

\* The server's request listener calls handleRequest.
HandleRequest ==
    /\ fsrv.phase = "new"
    /\ fsrv' = Dispatch(fsrv, fsrv.url)
    /\ UNCHANGED <<inp, phase, res, out, caller, target, pipes, conns, crashed>>

\* The callback of fs.stat: 404 or 500 on an error; for a directory the first
\* default file that exists is requested through handleRequest again, and
\* without one the answer is 403; a file is passed to fs.readFile.
StatCallback ==
    /\ fsrv.phase = "stat"
    /\ LET st == StatResult(fsrv.filePath)
       IN fsrv' =
            IF st = "ENOENT"
            THEN [fsrv EXCEPT !.phase = "done", !.status = STATUS_NOT_FOUND]
            ELSE IF st = "ENOTDIR"
            THEN [fsrv EXCEPT !.phase = "done", !.status = STATUS_SERVER_ERROR]
            ELSE IF st = "dir"
            THEN LET probed ==
                        { Append(fsrv.filePath, DEFAULT_FILES[i]) :
                            i \in { j \in 1..Len(DEFAULT_FILES) :
                                      \A k \in DefaultsIn(fsrv.filePath) : j <= k } }
                     f == [fsrv EXCEPT !.exists = fsrv.exists \cup probed]
                 IN IF DefaultsIn(fsrv.filePath) = {}
                    THEN [f EXCEPT !.phase = "done", !.status = STATUS_FORBIDDEN]
                    ELSE Dispatch([f EXCEPT !.hops = f.hops + 1],
                                  [abs |-> TRUE,
                                   segs |-> JoinPath(<< >>,
                                       [abs |-> fsrv.pathname.abs,
                                        segs |-> Append(fsrv.pathname.segs,
                                                        FirstDefault(fsrv.filePath))])])
            ELSE [fsrv EXCEPT !.phase = "read",
                              !.reads = fsrv.reads \cup {fsrv.filePath}]
    /\ UNCHANGED <<inp, phase, res, out, caller, target, pipes, conns, crashed>>

\* The callback of fs.readFile: 200 with the content, 500 on a read error.
ReadCallback ==
    /\ fsrv.phase = "read"
    /\ \E st \in {STATUS_OK, STATUS_SERVER_ERROR} :
          fsrv' = [fsrv EXCEPT !.phase = "done", !.status = st]
    /\ UNCHANGED <<inp, phase, res, out, caller, target, pipes, conns, crashed>>

FileNext == HandleRequest \/ StatCallback \/ ReadCallback

FileSpec == FileInit /\ [][FileNext]_vars

\* A path of the file system lies inside the root directory: it is the root
\* or below it.
InsideRoot(p) == IsPrefix(Root, p)

\* The longest path of the file system, in segments.
FsDepth == CHOOSE n \in 0..16 :
    /\ \E p \in DOMAIN FS : Len(p) = n
    /\ \A p \in DOMAIN FS : Len(p) <= n

\* C20: every path the file server passes to fs.stat or fs.readFile (and
\* every default file it probes for) lies inside the root directory: a request
\* whose path leaves the root is answered 403 before any file is touched; and
\* a directory request is dispatched to a default file at most as many times
\* as the file system is deep.
C20_InsideRoot ==
    /\ \A p \in fsrv.stats \cup fsrv.reads \cup fsrv.exists : InsideRoot(p)
    /\ fsrv.reads \subseteq fsrv.stats
    /\ (fsrv.phase \in {"stat", "read", "done"} /\ ~InsideRoot(fsrv.filePath))
          => /\ fsrv.phase = "done" /\ fsrv.status = STATUS_FORBIDDEN
             /\ fsrv.filePath \notin fsrv.stats /\ fsrv.reads = {}
    /\ fsrv.hops <= FsDepth
    /\ (fsrv.phase = "done") <=> (fsrv.status # 0)

\* A request with ".." segments, one of them behind an encoded separator, was
\* dispatched to a default file of a directory and the file was read.
C20_Witness ==
    /\ fsrv.phase = "done"
    /\ fsrv.status = STATUS_OK
    /\ fsrv.hops >= 1
    /\ \E i \in 1..Len(fsrv.requested.segs) :
          fsrv.requested.segs[i] = "..%2fapp-secret"
    /\ \E i \in 1..Len(fsrv.requested.segs) : fsrv.requested.segs[i] = ".."
    /\ fsrv.reads # {}

====
